---------------------------- MODULE Spec2Model ----------------------------
(***************************************************************************)
(* Air Quality ETL pipeline (src/flows/etl_flow.py) and the data load of   *)
(* its dashboard (src/dashboard/app.py).                                   *)
(*                                                                         *)
(* The flow air_quality_etl_flow runs extract_data, transform_data,        *)
(* create_database_tables and (optionally) validate_database against one   *)
(* SQLite store.  A CSV cell is a text; the `value' and `year' cells are   *)
(* sequences of one-character strings so that the decimal-comma            *)
(* replacement and the numeric parse are computed, the other cells are     *)
(* strings.  A missing cell (pandas NaN / SQL NULL) is the empty text.     *)
(***************************************************************************)
EXTENDS Integers, Sequences, FiniteSets, TLC

(***************************************************************************)
(* Bounds of the model.                                                    *)
(***************************************************************************)
\* longest input file (data rows) of the one-run specification
MaxRows == 2
\* number of pipeline runs against the same store
MaxRuns == 2

(***************************************************************************)
(* Cells.                                                                  *)
(***************************************************************************)
\* a missing text cell
NA == ""
\* a missing `value' / `year' cell
NAChars == << >>

\* pandas' default NA texts, applied by read_csv even under dtype=str
STR_NA_VALUES ==
    { "", "#N/A", "#N/A N/A", "#NA", "-1.#IND", "-1.#QNAN", "-NaN", "-nan",
      "1.#IND", "1.#QNAN", "<NA>", "N/A", "NA", "NULL", "NaN", "None",
      "n/a", "nan", "null" }

\* the members of STR_NA_VALUES that the alphabet of the numeric cells spells
CHARS_NA_VALUES ==
    { << >>, <<"N", "A">>, <<"N", "a", "N">>, <<"n", "a", "n">>,
      <<"-", "N", "a", "N">>, <<"-", "n", "a", "n">> }

NaFilter(s) == IF s \in STR_NA_VALUES THEN NA ELSE s

NaFilterChars(s) == IF s \in CHARS_NA_VALUES THEN NAChars ELSE s

Digits == {"0", "1", "2", "3", "4", "5", "6", "7", "8", "9"}

IsDigits(s) == \A i \in 1..Len(s) : s[i] \in Digits

RECURSIVE StripLeadingZeros(_)
StripLeadingZeros(s) ==
    IF s # << >> /\ Head(s) = "0" THEN StripLeadingZeros(Tail(s)) ELSE s

RECURSIVE StripTrailingZeros(_)
StripTrailingZeros(s) ==
    IF s # << >> /\ s[Len(s)] = "0"
    THEN StripTrailingZeros(SubSeq(s, 1, Len(s) - 1))
    ELSE s

(***************************************************************************)
(* Floats: a decimal numeral in normal form, NaN, or the ValueError that   *)
(* the conversion raises.                                                  *)
(***************************************************************************)
NaN == [kind |-> "nan", neg |-> FALSE, int |-> << >>, frac |-> << >>]

ValueError == [kind |-> "error", neg |-> FALSE, int |-> << >>, frac |-> << >>]

Num(neg, ip, fp) ==
    [kind |-> "num", neg |-> neg /\ (ip # << >> \/ fp # << >>),
     int |-> ip, frac |-> fp]

\* df['value'].str.replace(',', '.')
StrReplaceComma(s) == [i \in 1..Len(s) |-> IF s[i] = "," THEN "." ELSE s[i]]

LowerChar(c) == CASE c = "N" -> "n" [] c = "A" -> "a" [] OTHER -> c

\* .astype('float') of one text: Python's float() on the model's alphabet
\* (sign, digits, one decimal point, nan in any letter case)
AsFloat(s) ==
    LET neg  == s # << >> /\ Head(s) = "-"
        body == IF s # << >> /\ Head(s) \in {"+", "-"} THEN Tail(s) ELSE s
        dots == {i \in 1..Len(body) : body[i] = "."}
    IN  IF [i \in 1..Len(body) |-> LowerChar(body[i])] = <<"n", "a", "n">>
        THEN NaN
        ELSE IF Cardinality(dots) > 1
        THEN ValueError
        ELSE LET d  == IF dots = {} THEN Len(body) + 1
                       ELSE CHOOSE i \in dots : TRUE
                 ip == SubSeq(body, 1, d - 1)
                 fp == SubSeq(body, d + 1, Len(body))
             IN  IF IsDigits(ip) /\ IsDigits(fp) /\ Len(ip) + Len(fp) > 0
                 THEN Num(neg, StripLeadingZeros(ip), StripTrailingZeros(fp))
                 ELSE ValueError

\* the value column after step 3: a missing cell stays missing
ValueAsFloat(s) == IF s = NAChars THEN NaN ELSE AsFloat(StrReplaceComma(s))

\* dd.to_numeric(df['year'], errors='coerce'): a numeral, else missing
ToNumericCoerce(s) ==
    IF s # << >> /\ IsDigits(s)
    THEN (IF StripLeadingZeros(s) = << >> THEN <<"0">> ELSE StripLeadingZeros(s))
    ELSE NAChars

\* the "not reported" marker 9999999999.0
Sentinel ==
    Num(FALSE, <<"9", "9", "9", "9", "9", "9", "9", "9", "9", "9">>, << >>)

\* IEEE comparison a != b: NaN differs from everything
FloatNe(a, b) == a.kind = "nan" \/ b.kind = "nan" \/ a # b

\* substances removed by the exclusion filter
ExcludedSubstances == {"CD", "ND"}


(***************************************************************************)
(* Input files.  A file has a header of ncols columns, data rows and       *)
(* bad_lines lines with more fields than the header; a row lists its cells *)
(* under the canonical names of the fourteen positions.                    *)
(***************************************************************************)
new_names ==
    << "section", "indicator", "unit", "code", "substance", "source_type",
       "emission_type", "location_level", "region", "municipal_district",
       "municipal_formation", "oktmo_code", "year", "value" >>

CsvRow(sec, ind, code, sub, src, mf, oktmo, year, value) ==
    [ section |-> sec, indicator |-> ind, unit |-> "t",
      code |-> code, substance |-> sub, source_type |-> src,
      emission_type |-> "all", location_level |-> "mo", region |-> "r1",
      municipal_district |-> "d1", municipal_formation |-> mf,
      oktmo_code |-> oktmo, year |-> year, value |-> value ]

Y2020 == <<"2", "0", "2", "0">>

\* a valid row, decimal comma
RowA == CsvRow("s1", "i1", "c1", "SO2", "t1", "f1", "o1", Y2020,
               <<"1", "2", ",", "5">>)
\* valid; same code, substance and location code as RowA with other
\* description, source type and formation
RowB == CsvRow("s1", "i2", "c1", "SO2", "t2", "f2", "o1", Y2020, <<"7">>)
\* valid; no location code, unparseable year
RowC == CsvRow("s2", "i3", "c2", "NO2", "t1", "f1", "", <<"a">>,
               <<"0", ".", "5">>)
\* valid; keys that no other row has, and the value zero
RowD == CsvRow("s1", "i4", "c3", "PM", "t2", "f3", "o2", Y2020, <<"0">>)
\* excluded substance
RowCD == CsvRow("s1", "i1", "c1", "CD", "t1", "f1", "o1", Y2020, <<"3">>)
\* the sentinel, written with a decimal comma
RowSentinel ==
    CsvRow("s1", "i1", "c1", "SO2", "t1", "f1", "o1", Y2020,
           <<"9", "9", "9", "9", "9", "9", "9", "9", "9", "9", ",", "0">>)
\* a value that is no number
RowAbc == CsvRow("s1", "i1", "c1", "SO2", "t1", "f1", "o1", Y2020,
                 <<"a", "b", "c">>)
\* a value text that is not an NA text and that float() reads as NaN
RowNAN == CsvRow("s1", "i1", "c1", "SO2", "t1", "f1", "o1", Y2020,
                 <<"N", "A", "N">>)
\* an NA text as value
RowNoValue == CsvRow("s1", "i1", "c1", "SO2", "t1", "f1", "o1", Y2020,
                     <<"n", "a", "n">>)
\* no section (an NA text), and a value that is no number
RowNoSection == CsvRow("NA", "i1", "c1", "SO2", "t1", "f1", "o1", Y2020,
                       <<"a", "b", "c">>)

RichRows ==
    { RowA, RowB, RowC, RowD, RowCD, RowSentinel, RowAbc, RowNAN,
      RowNoValue, RowNoSection }

SeqsUpTo(S, n) == UNION { [1..k -> S] : k \in 0..n }

CsvFile(ncols, rows) == [ncols |-> ncols, rows |-> rows, bad_lines |-> 0]

\* the same file with one line of too many fields among its lines
WithBadLine(file) == [file EXCEPT !.bad_lines = 1]

\* the files of the one-run specification
OneRunFiles ==
    { CsvFile(14, rows) : rows \in SeqsUpTo(RichRows, MaxRows) }
      \cup { CsvFile(n, <<RowA>>) : n \in {13, 15} }
      \cup { WithBadLine(CsvFile(14, rows)) : rows \in {<< >>, <<RowA>>} }

\* the files of the many-runs specification
FlowFiles ==
    { CsvFile(14, << >>), CsvFile(14, <<RowA, RowC>>), CsvFile(14, <<RowD>>),
      CsvFile(14, <<RowB, RowA>>), CsvFile(14, <<RowAbc>>),
      CsvFile(13, <<RowA>>) }

(***************************************************************************)
(* extract_data: read_csv(sep=';', dtype=str, on_bad_lines='skip').        *)
(***************************************************************************)
NumericColumns == {"year", "value"}

ReadCell(col, text) ==
    IF col \in NumericColumns THEN NaFilterChars(text) ELSE NaFilter(text)

\* the lines with too many fields are skipped (on_bad_lines='skip'): the
\* frame holds the other lines, in their order
ReadCsv(file) ==
    [ i \in 1..Len(file.rows) |->
        [ col \in DOMAIN file.rows[i] |-> ReadCell(col, file.rows[i][col]) ] ]

(***************************************************************************)
(* transform_data.                                                         *)
(***************************************************************************)
Min(a, b) == IF a < b THEN a ELSE b

\* step 1: zip(df.columns, new_names) names the first positions only
RenamedColumns(ncols) ==
    { new_names[i] : i \in 1..Min(ncols, Len(new_names)) }

RequiredColumns == {"value", "section", "code", "substance"}

\* step 2: dropna(subset=[...])
DropNa(rows) ==
    SelectSeq(rows, LAMBDA r : /\ r.value # NAChars
                               /\ r.section # NA
                               /\ r.code # NA
                               /\ r.substance # NA)

\* step 3: the typed columns
ConvertTypes(rows) ==
    [ i \in 1..Len(rows) |->
        [ rows[i] EXCEPT !.year = ToNumericCoerce(rows[i].year),
                         !.value = ValueAsFloat(rows[i].value) ] ]

\* step 5: the sentinel filter, then the substance filter
FilterRows(rows) ==
    SelectSeq(rows, LAMBDA r : /\ FloatNe(r.value, Sentinel)
                               /\ r.substance \notin ExcludedSubstances)

\* the task's outcome: the returned frame, or the exception it re-raises
TransformData(ncols, raw) ==
    IF ~(RequiredColumns \subseteq RenamedColumns(ncols))
    THEN [ok |-> FALSE, error |-> "KeyError", rows |-> << >>]
    ELSE LET typed == ConvertTypes(DropNa(raw))
         IN  IF \E i \in 1..Len(typed) : typed[i].value.kind = "error"
             THEN [ok |-> FALSE, error |-> "ValueError", rows |-> << >>]
             ELSE [ok |-> TRUE, error |-> "", rows |-> FilterRows(typed)]

(***************************************************************************)
(* create_database_tables: the four relations and their indexes.           *)
(***************************************************************************)
TableOrder ==
    <<"air_emissions", "indicator_codes", "substance_types", "location_codes">>

TableNames == { TableOrder[i] : i \in 1..Len(TableOrder) }

\* the place of a relation in the order of the writes
TablePos(t) == CHOOSE i \in 1..Len(TableOrder) : TableOrder[i] = t

air_emissions_cols ==
    {"section", "code", "substance", "value", "oktmo_code", "year"}

indicator_cols == {"code", "indicator"}

substance_cols == {"substance", "source_type"}

location_cols ==
    {"oktmo_code", "municipal_formation", "municipal_district", "region"}

\* df[cols]
Project(rows, cols) ==
    [ i \in 1..Len(rows) |-> [ c \in cols |-> rows[i][c] ] ]

\* no deduplication at all
KeepAllRows(rows, subset) == rows

\* rows count as duplicates when they agree on some column of the subset
DropDuplicatesAnyColumn(rows, subset) ==
    LET same(a, b) == \E c \in subset : a[c] = b[c]
        kept[i \in 0..Len(rows)] ==
            IF i = 0 THEN << >>
            ELSE IF \E j \in 1..(i - 1) : same(rows[j], rows[i])
                 THEN kept[i - 1]
                 ELSE Append(kept[i - 1], rows[i])
    IN  kept[Len(rows)]

\* drop_duplicates(subset): the first row of every group stays (NaN keys
\* compare equal)
DropDuplicates(rows, subset) ==
    LET same(a, b) == \A c \in subset : a[c] = b[c]
        kept[i \in 0..Len(rows)] ==
            IF i = 0 THEN << >>
            ELSE IF \E j \in 1..(i - 1) : same(rows[j], rows[i])
                 THEN kept[i - 1]
                 ELSE Append(kept[i - 1], rows[i])
    IN  kept[Len(rows)]

\* the key texts and the source types of the model in ascending order
Collation ==
    << "CD", "ND", "NO2", "PM", "SO2", "c1", "c2", "c3", "o1", "o2",
       "t1", "t2" >>

\* ascending order of a key column, missing keys last
KeyLess(a, b) ==
    /\ a # NA
    /\ \/ b = NA
       \/ (CHOOSE i \in 1..Len(Collation) : Collation[i] = a)
            < (CHOOSE i \in 1..Len(Collation) : Collation[i] = b)

\* sort_values(col): rows with equal keys stay in their order
SortValues(rows, col) ==
    LET Insert(sorted, r) ==
            LET n == Cardinality({ j \in 1..Len(sorted) :
                                     ~KeyLess(r[col], sorted[j][col]) })
            IN  SubSeq(sorted, 1, n) \o <<r>> \o SubSeq(sorted, n + 1, Len(sorted))
        out[i \in 0..Len(rows)] ==
            IF i = 0 THEN << >> ELSE Insert(out[i - 1], rows[i])
    IN  out[Len(rows)]

\* the frames, with air_emissions deduplicated like the dimensions
FrameOfDistinctFacts(t, df_final) ==
    CASE t = "air_emissions" ->
            DropDuplicates(Project(df_final, air_emissions_cols),
                           air_emissions_cols)
      [] t = "indicator_codes" ->
            SortValues(DropDuplicates(Project(df_final, indicator_cols),
                                      indicator_cols), "code")
      [] t = "substance_types" ->
            SortValues(DropDuplicates(Project(df_final, substance_cols),
                                      {"substance"}), "substance")
      [] t = "location_codes" ->
            SortValues(DropDuplicates(Project(df_final, location_cols),
                                      location_cols), "oktmo_code")

\* the frame written to each relation
FrameOf(t, df_final) ==
    CASE t = "air_emissions" -> Project(df_final, air_emissions_cols)
      [] t = "indicator_codes" ->
            SortValues(DropDuplicates(Project(df_final, indicator_cols),
                                      indicator_cols), "code")
      [] t = "substance_types" ->
            SortValues(DropDuplicates(Project(df_final, substance_cols),
                                      {"substance"}), "substance")
      [] t = "location_codes" ->
            SortValues(DropDuplicates(Project(df_final, location_cols),
                                      location_cols), "oktmo_code")

NoTable == [exists |-> FALSE, rows |-> << >>]

\* a relation that is none of the four, left in the store by another program
OtherTable == "other_table"

StoreTables == TableNames \cup {OtherTable}

EmptyStore == [tables |-> [t \in StoreTables |-> NoTable], indexes |-> {}]

\* a store that holds a filled relation of another name and an index on it
\* that bears the name of one of the loader's indexes
ForeignStore ==
    [ tables |-> [ t \in StoreTables |->
                     IF t = OtherTable
                     THEN [exists |-> TRUE, rows |-> << [code |-> "c1"] >>]
                     ELSE NoTable ],
      indexes |-> { <<OtherTable, "idx_air_code", "code">> } ]

\* to_sql(name, conn, if_exists='append') in place of 'replace'
AppendTable(old, frame) == [exists |-> TRUE, rows |-> old.rows \o frame]

\* to_sql(name, conn, if_exists='replace', index=False)
WriteTable(old, frame) == [exists |-> TRUE, rows |-> frame]

indexes ==
    << <<"air_emissions", "idx_air_year", "year">>,
       <<"air_emissions", "idx_air_code", "code">>,
       <<"air_emissions", "idx_air_substance", "substance">>,
       <<"air_emissions", "idx_air_section", "section">>,
       <<"air_emissions", "idx_air_oktmo", "oktmo_code">>,
       <<"indicator_codes", "idx_indicator_code", "code">>,
       <<"substance_types", "idx_substance", "substance">>,
       <<"location_codes", "idx_location_oktmo", "oktmo_code">> >>

IndexSet == { indexes[i] : i \in 1..Len(indexes) }

\* the sets of indexes whose CREATE INDEX may raise within one load: none,
\* one of them (an index of the first relation, or the last of the list), or
\* all; the loop treats every entry alike
IndexFailureSets ==
    { {}, {indexes[2]}, {indexes[Len(indexes)]}, IndexSet }

\* where a load may raise: nowhere, in sqlite3.connect, in the write of one
\* relation, or in commit/close after the indexes
LoadFailures == {"none", "connect", "commit"} \cup TableNames

\* the place of a failure in the order of the writes
FailPos(fail) ==
    CASE fail = "connect" -> 0
      [] fail \in TableNames -> TablePos(fail)
      [] OTHER -> Len(TableOrder) + 1

\* what a failed to_sql leaves of its relation: the whole write rolled back,
\* or the DROP TABLE, or the DROP and CREATE TABLE, already committed
WriteOutcomes == {"kept", "dropped", "empty"}

\* all four writes in one transaction: a load that raises changes nothing
TablesAfterAtomicLoad(tables, df_final, fail, outcome) ==
    [ t \in DOMAIN tables |->
        IF t \in TableNames /\ fail \in {"none", "commit"}
        THEN [exists |-> TRUE, rows |-> FrameOf(t, df_final)]
        ELSE tables[t] ]

\* the relations after a load that raises at `fail' (or nowhere)
TablesAfterLoad(tables, df_final, fail, outcome) ==
    [ t \in DOMAIN tables |->
        IF t \notin TableNames THEN tables[t]
        ELSE IF TablePos(t) < FailPos(fail)
             THEN WriteTable(tables[t], FrameOf(t, df_final))
        ELSE IF TablePos(t) > FailPos(fail) \/ outcome = "kept" THEN tables[t]
        ELSE IF outcome = "dropped" THEN NoTable
        ELSE [exists |-> TRUE, rows |-> << >>] ]

\* the loop over `indexes' runs before the four writes: every replace drops
\* what the loop created
IndexesBeforeWrites(idx, fail, outcome, failing) ==
    { x \in idx : x[1] \notin TableNames }

\* the indexes after it: replacing or dropping a relation drops its indexes,
\* and once the four relations are written CREATE INDEX IF NOT EXISTS runs
\* for every entry of `indexes': it creates the index unless it raises
\* (`failing') or an index of that name exists already, on whatever relation
IndexesAfterLoad(idx, fail, outcome, failing) ==
    LET survive == { x \in idx :
                       \/ x[1] \notin TableNames
                       \/ TablePos(x[1]) > FailPos(fail)
                       \/ TablePos(x[1]) = FailPos(fail) /\ outcome = "kept" }
        created == { x \in IndexSet \ failing :
                       \A y \in survive : y[2] # x[2] }
    IN  IF fail \in {"none", "commit"}
        THEN survive \cup created
        ELSE survive

\* an exception of CREATE INDEX leaves the function like any other
LoadRaisesOnIndexError(fail, failing) == fail # "none" \/ failing # {}

\* whether create_database_tables raises: the exceptions of CREATE INDEX are
\* caught inside the loop and logged
LoadRaises(fail, failing) == fail # "none"

\* stats: the length of the cleaned frame for every relation
StatsOfCleanedFrame(df_final) ==
    [ t \in TableNames |-> Len(df_final) ]

\* stats: the length of each written frame
StatsOf(df_final) ==
    [ t \in TableNames |-> Len(FrameOf(t, df_final)) ]

RECURSIVE SumOver(_, _)
SumOver(f, S) ==
    IF S = {} THEN 0
    ELSE LET x == CHOOSE y \in S : TRUE IN f[x] + SumOver(f, S \ {x})

(***************************************************************************)
(* validate_database.                                                      *)
(***************************************************************************)
\* SELECT * FROM t LIMIT 2
Sample(rows) == SubSeq(rows, 1, Min(2, Len(rows)))

\* validation_results with an entry for each of the four relations only
ValidationResultsOfFour(tables) ==
    [ t \in { u \in TableNames : tables[u].exists } |->
        [row_count |-> Len(tables[t].rows), sample |-> Sample(tables[t].rows)] ]

\* validation_results: one entry per table of sqlite_master
ValidationResults(tables) ==
    [ t \in { u \in DOMAIN tables : tables[u].exists } |->
        [row_count |-> Len(tables[t].rows), sample |-> Sample(tables[t].rows)] ]

\* the referential checks: (relation, key column)
checks ==
    << <<"indicator_codes", "code">>, <<"substance_types", "substance">>,
       <<"location_codes", "oktmo_code">> >>

ColumnValues(table, col) == { table.rows[i][col] : i \in 1..Len(table.rows) }

\* SQL's  k NOT IN (SELECT col FROM dim)  is true: never for a NULL k or
\* when the subquery holds a NULL, unless the subquery is empty
NotIn(k, sub) == sub = {} \/ (k # NA /\ NA \notin sub /\ k \notin sub)

\* SELECT COUNT(DISTINCT col) FROM air_emissions WHERE col NOT IN (...):
\* the logged number, or the exception the loop catches
MissingCount(tables, dim, col) ==
    IF ~tables["air_emissions"].exists \/ ~tables[dim].exists
    THEN [ok |-> FALSE, missing |-> 0]
    ELSE LET sub == ColumnValues(tables[dim], col)
         IN  [ok |-> TRUE,
              missing |->
                Cardinality({ k \in ColumnValues(tables["air_emissions"], col) :
                                k # NA /\ NotIn(k, sub) })]

CheckLog(tables) ==
    [ i \in 1..Len(checks) |-> MissingCount(tables, checks[i][1], checks[i][2]) ]

(***************************************************************************)
(* The dashboard's load_data (src/dashboard/app.py).                       *)
(***************************************************************************)
\* SQL's  value > 0 : not true for NULL
Positive(v) == v.kind = "num" /\ ~v.neg /\ (v.int # << >> \/ v.frac # << >>)

\* the rows of a dimension that a LEFT JOIN pairs with a key: the positions
\* of the rows whose key equals it, or 0 (one row of NULLs) when none does
LeftJoin(k, rows, col) ==
    LET match == { i \in 1..Len(rows) : k # NA /\ rows[i][col] # NA
                                          /\ rows[i][col] = k }
    IN  IF match = {} THEN {0} ELSE match

\* the columns of a dimension row of a joined row
Joined(rows, i, cols) ==
    [ c \in cols |-> IF i = 0 THEN NA ELSE rows[i][c] ]

\* substance_types_dict[substance]: the non-empty source types of the
\* substance, in the order of the relation
TypesOf(substance, st) ==
    LET all == SelectSeq(st, LAMBDA r : /\ r.substance = substance
                                        /\ r.source_type # NA)
    IN  [ i \in 1..Len(all) |-> all[i].source_type ]

\* get_substance_info: (substance_name, substance_display); the display
\* name of several types, "substance (t1, t2)", is kept as its parts
SubstanceInfo(substance, st) ==
    LET types == TypesOf(substance, st)
    IN  IF Len(types) = 0 THEN <<substance, substance>>
        ELSE IF Len(types) = 1 THEN <<types[1], types[1]>>
        ELSE <<types[1], <<substance, types>>>>

\* load_data(): the frame of the main query, or the exception of a query on
\* a relation that does not exist.  A row of the frame is named by the
\* positions of the air_emissions, indicator_codes and location_codes rows
\* it joins (the query has no ORDER BY).
LoadData(tables) ==
    IF \E t \in TableNames : ~tables[t].exists
    THEN [ok |-> FALSE, df |-> << >>]
    ELSE LET ae == tables["air_emissions"].rows
             ic == tables["indicator_codes"].rows
             lc == tables["location_codes"].rows
             st == tables["substance_types"].rows
             keys == UNION { { <<f, i, l>> :
                                i \in LeftJoin(ae[f].code, ic, "code"),
                                l \in LeftJoin(ae[f].oktmo_code, lc, "oktmo_code") } :
                             f \in { g \in 1..Len(ae) : Positive(ae[g].value) } }
         IN  [ok |-> TRUE,
              df |-> [ p \in keys |->
                        [ section |-> ae[p[1]].section,
                          code |-> ae[p[1]].code,
                          substance |-> ae[p[1]].substance,
                          value |-> ae[p[1]].value,
                          oktmo_code |-> ae[p[1]].oktmo_code,
                          year |-> ae[p[1]].year,
                          indicator |-> Joined(ic, p[2], {"indicator"}).indicator,
                          region |-> Joined(lc, p[3], location_cols).region,
                          municipal_district |->
                             Joined(lc, p[3], location_cols).municipal_district,
                          municipal_formation |->
                             Joined(lc, p[3], location_cols).municipal_formation,
                          substance_name |->
                             SubstanceInfo(ae[p[1]].substance, st)[1],
                          substance_display |->
                             SubstanceInfo(ae[p[1]].substance, st)[2] ] ] ]

(***************************************************************************)
(* The dashboard's substance filter (src/dashboard/app.py).                *)
(***************************************************************************)
\* get_all_substances_with_types(): substance -> display name.  A substance
\* of substance_types with one non-empty source type is shown under that
\* type, one with several under "substance (t1, t2)", kept as its parts; a
\* substance of air_emissions without entry is shown under its own name.
GetAllSubstancesWithTypes(tables) ==
    LET st == tables["substance_types"].rows
        typed == { st[i].substance : i \in { j \in 1..Len(st) :
                                               st[j].source_type # NA } }
        facts == ColumnValues(tables["air_emissions"], "substance") \ {NA}
    IN  [ s \in typed \cup facts |->
            IF s \notin typed THEN s
            ELSE IF Len(TypesOf(s, st)) = 1 THEN TypesOf(s, st)[1]
            ELSE <<s, TypesOf(s, st)>> ]

\* the place of a text in the order of Python's string comparison
Rank(x) == CHOOSE i \in 1..Len(Collation) : Collation[i] = x

\* substance_options: (substance, display name) for the substances of the
\* loaded frame, taken in ascending order of the substance and then sorted
\* by display name, options of equal name staying in their order
SubstanceOptions(df, all_substances) ==
    LET available == { df[p].substance : p \in DOMAIN df } \ {NA}
        name(s) == IF s \in DOMAIN all_substances THEN all_substances[s] ELSE s
        Before(a, b) ==
            \/ Rank(name(a)) < Rank(name(b))
            \/ Rank(name(a)) = Rank(name(b)) /\ Rank(a) < Rank(b)
    IN  [ i \in 1..Cardinality(available) |->
            LET s == CHOOSE a \in available :
                       Cardinality({ b \in available : Before(b, a) }) = i - 1
            IN  <<s, name(s)>> ]

\* display_to_code = {name: code for code, name in substance_options}: a
\* later option of the same name replaces the earlier one
DisplayToCode(options) ==
    [ n \in { options[i][2] : i \in 1..Len(options) } |->
        LET last == CHOOSE i \in 1..Len(options) :
                      /\ options[i][2] = n
                      /\ \A j \in (i + 1)..Len(options) : options[j][2] # n
        IN  options[last][1] ]

\* the multiselect returns the names of the picked options; selected_substances
\* are their codes, and the frame is filtered on them unless none is selected
FilterBySubstance(df, options, picked) ==
    LET selected_display_names == { options[i][2] : i \in picked }
        selected_substances ==
            { DisplayToCode(options)[n] : n \in selected_display_names }
    IN  [ options |-> options,
          picked |-> picked,
          selected_substances |-> selected_substances,
          df_filtered |->
             IF selected_substances = {} THEN DOMAIN df
             ELSE { p \in DOMAIN df : df[p].substance \in selected_substances } ]

(***************************************************************************)
(* The flow and the store.                                                 *)
(***************************************************************************)
VARIABLES
    data_file,          \* the CSV file of the current run
    run_validation,     \* the flow's parameter
    pc,                 \* where the flow stands
    runs,               \* flow runs started so far
    raw_data,           \* extract_data's result
    transformed_data,   \* transform_data's result
    load_result,        \* << >>, or <<[total_records, table_stats]>>
    validation,         \* << >>, or <<[results, log]>> of this run's validator
    summary,            \* << >>, or <<the returned summary>>
    attempts,           \* per task: how often this run has started it
    status,             \* per task: "idle", "ok" or "failed" in this run
    error,              \* the exception that aborted this run, "" if none
    db_tables,          \* the store: relation name -> [exists, rows]
    db_indexes,         \* the store: the indexes that exist
    index_errors,       \* the indexes whose creation this run's load logged as failed
    db_before,          \* the relations as the current run found them
    standalone,         \* << >>, or the outcome of a validator run outside a flow
    dashboard,          \* << >>, or <<what the dashboard's load_data gave>>
    substance_filter    \* << >>, or <<the options, the user's pick and the filtered frame>>

vars ==
    << data_file, run_validation, pc, runs, raw_data, transformed_data,
       load_result, validation, summary, attempts, status, error, db_tables,
       db_indexes, index_errors, db_before, standalone, dashboard,
       substance_filter >>

run_vars ==
    << data_file, run_validation, runs, db_before >>

Tasks == {"extract", "transform", "load", "validate"}

\* @task(name="extract_data", retries=2, retry_delay_seconds=30)
retries == 2

\* one retry more than the decorator grants
MayRetryOnceMore(n) == n <= retries + 1

\* whether the engine runs the task again after its n-th attempt failed
MayRetry(n) == n <= retries

NoFile == CsvFile(0, << >>)

InitWith(store) ==
    /\ data_file = NoFile
    /\ run_validation = TRUE
    /\ pc = "idle"
    /\ runs = 0
    /\ raw_data = << >>
    /\ transformed_data = << >>
    /\ load_result = << >>
    /\ validation = << >>
    /\ summary = << >>
    /\ attempts = [t \in Tasks |-> 0]
    /\ status = [t \in Tasks |-> "idle"]
    /\ error = ""
    /\ db_tables = store.tables
    /\ db_indexes = store.indexes
    /\ index_errors = {}
    /\ db_before = store.tables
    /\ standalone = << >>
    /\ dashboard = << >>
    /\ substance_filter = << >>

\* the store does not exist yet
Init == InitWith(EmptyStore)

\* the store does not exist yet, or another program has written to it
InitOneRun == InitWith(EmptyStore) \/ InitWith(ForeignStore)

Idle == pc \in {"idle", "completed", "aborted"}

\* air_quality_etl_flow(data_file, db_file, run_validation) is called
StartRun(files, maxRuns) ==
    /\ Idle
    /\ runs < maxRuns
    /\ \E f \in files, rv \in BOOLEAN :
         /\ data_file' = f
         /\ run_validation' = rv
    /\ pc' = "extract"
    /\ runs' = runs + 1
    /\ raw_data' = << >>
    /\ transformed_data' = << >>
    /\ load_result' = << >>
    /\ validation' = << >>
    /\ summary' = << >>
    /\ attempts' = [t \in Tasks |-> 0]
    /\ status' = [t \in Tasks |-> "idle"]
    /\ error' = ""
    /\ standalone' = << >>
    /\ dashboard' = << >>
    /\ substance_filter' = << >>
    /\ db_before' = db_tables
    /\ index_errors' = {}
    /\ UNCHANGED <<db_tables, db_indexes>>

\* the exception is logged and not re-raised: the flow goes on
SwallowError(task, exc) ==
    /\ pc' = "summary"
    /\ status' = [status EXCEPT ![task] = "failed"]
    /\ error' = exc

\* a task raises: the flow ends without a summary
Abort(task, exc) ==
    /\ pc' = "aborted"
    /\ status' = [status EXCEPT ![task] = "failed"]
    /\ error' = exc

\* raw_data = extract_data(data_file); the read may raise (missing or
\* unreadable file), and the engine retries the task
ExtractData ==
    /\ pc = "extract"
    /\ attempts' = [attempts EXCEPT !.extract = @ + 1]
    /\ \E readable \in BOOLEAN :
         IF readable
         THEN /\ raw_data' = ReadCsv(data_file)
              /\ status' = [status EXCEPT !.extract = "ok"]
              /\ pc' = "transform"
              /\ UNCHANGED error
         ELSE /\ IF MayRetry(attempts'.extract)
                 THEN UNCHANGED <<pc, status, error>>
                 ELSE Abort("extract", "OSError")
              /\ UNCHANGED raw_data
    /\ UNCHANGED <<run_vars, transformed_data, load_result, validation,
                   summary, db_tables, db_indexes, index_errors, standalone,
                   dashboard,
                   substance_filter>>

\* transformed_data = transform_data(raw_data)
TransformDataTask ==
    /\ pc = "transform"
    /\ attempts' = [attempts EXCEPT !.transform = @ + 1]
    /\ LET r == TransformData(data_file.ncols, raw_data)
       IN  IF r.ok
           THEN /\ transformed_data' = r.rows
                /\ status' = [status EXCEPT !.transform = "ok"]
                /\ pc' = "load"
                /\ UNCHANGED error
           ELSE /\ Abort("transform", r.error)
                /\ UNCHANGED transformed_data
    /\ UNCHANGED <<run_vars, raw_data, load_result, validation, summary,
                   db_tables, db_indexes, index_errors, standalone,
                   dashboard,
                   substance_filter>>

\* total_records, table_stats = create_database_tables(transformed_data, db_file)
CreateDatabaseTables ==
    /\ pc = "load"
    /\ attempts' = [attempts EXCEPT !.load = @ + 1]
    /\ \E fail \in LoadFailures, outcome \in WriteOutcomes,
          failing \in IndexFailureSets :
         /\ fail \notin TableNames => outcome = "kept"
         /\ fail \notin {"none", "commit"} => failing = {}
         /\ db_tables' = TablesAfterLoad(db_tables, transformed_data, fail, outcome)
         /\ db_indexes' = IndexesAfterLoad(db_indexes, fail, outcome, failing)
         /\ index_errors' = failing
         /\ IF ~LoadRaises(fail, failing)
            THEN /\ load_result' =
                      << [ total_records |->
                             SumOver(StatsOf(transformed_data), TableNames),
                           table_stats |-> StatsOf(transformed_data) ] >>
                 /\ status' = [status EXCEPT !.load = "ok"]
                 /\ pc' = IF run_validation THEN "validate" ELSE "summary"
                 /\ UNCHANGED error
            ELSE /\ Abort("load", IF fail = "none" THEN "CREATE INDEX" ELSE fail)
                 /\ UNCHANGED load_result
    /\ UNCHANGED <<run_vars, raw_data, transformed_data, validation, summary,
                   standalone, dashboard,
                   substance_filter>>

\* a validator that raises when a check finds missing references
ValidatorRaisesOnMissing(tables, connected) ==
    IF connected /\ \A i \in 1..Len(checks) : CheckLog(tables)[i].missing = 0
    THEN [ok |-> TRUE, results |-> ValidationResults(tables),
          log |-> CheckLog(tables)]
    ELSE [ok |-> FALSE, results |-> << >>, log |-> << >>]

\* validate_database(db_file): its return value and what its checks log, or
\* the exception of a failed connection or query
ValidatorOutcome(tables, connected) ==
    IF connected
    THEN [ok |-> TRUE, results |-> ValidationResults(tables),
          log |-> CheckLog(tables)]
    ELSE [ok |-> FALSE, results |-> << >>, log |-> << >>]

\* validation_results = validate_database(db_file), inside the flow
ValidateDatabase ==
    /\ pc = "validate"
    /\ attempts' = [attempts EXCEPT !.validate = @ + 1]
    /\ \E connected \in BOOLEAN :
         LET v == ValidatorOutcome(db_tables, connected)
         IN  IF v.ok
             THEN /\ validation' = << [results |-> v.results, log |-> v.log] >>
                  /\ status' = [status EXCEPT !.validate = "ok"]
                  /\ pc' = "summary"
                  /\ UNCHANGED error
             ELSE /\ Abort("validate", "OperationalError")
                  /\ UNCHANGED validation
    /\ UNCHANGED <<run_vars, raw_data, transformed_data, load_result, summary,
                   db_tables, db_indexes, index_errors, standalone,
                   dashboard,
                   substance_filter>>

\* summary = {...}; return summary
ReturnSummary ==
    /\ pc = "summary"
    /\ summary' =
         << [ total_records_processed |-> load_result[1].total_records,
              table_statistics |-> load_result[1].table_stats,
              validation_results |->
                 IF run_validation THEN validation[1].results ELSE << >>,
              status |-> "COMPLETED" ] >>
    /\ pc' = "completed"
    /\ UNCHANGED <<run_vars, raw_data, transformed_data, load_result,
                   validation, attempts, status, error, db_tables, db_indexes,
                   index_errors, standalone,
                   dashboard,
                   substance_filter>>

\* a validator that creates the relations it does not find
ValidateStandaloneCreatingTables ==
    /\ Idle
    /\ standalone = << >>
    /\ standalone' = << ValidatorOutcome(db_tables, TRUE) >>
    /\ db_tables' = [ t \in DOMAIN db_tables |->
                        IF t \in TableNames /\ ~db_tables[t].exists
                        THEN [exists |-> TRUE, rows |-> << >>]
                        ELSE db_tables[t] ]
    /\ UNCHANGED <<run_vars, pc, raw_data, transformed_data, load_result,
                   validation, summary, attempts, status, error,
                   db_indexes, index_errors, dashboard,
                   substance_filter>>

\* the task validate_database(db_path), called on the store outside a flow
\* run and connecting to it
ValidateStandalone ==
    /\ Idle
    /\ standalone = << >>
    /\ standalone' = << ValidatorOutcome(db_tables, TRUE) >>
    /\ UNCHANGED <<run_vars, pc, raw_data, transformed_data, load_result,
                   validation, summary, attempts, status, error, db_tables,
                   db_indexes, index_errors, dashboard,
                   substance_filter>>

\* the dashboard, started while no flow runs, loads its frame from the store
DashboardLoadData ==
    /\ Idle
    /\ dashboard = << >>
    /\ dashboard' = << LoadData(db_tables) >>
    /\ UNCHANGED <<run_vars, pc, raw_data, transformed_data, load_result,
                   validation, summary, attempts, status, error, db_tables,
                   db_indexes, index_errors, standalone, substance_filter>>

\* the user picks options of the substance multiselect of the loaded
\* dashboard (the other filters left unselected)
SelectSubstances ==
    /\ Idle
    /\ dashboard # << >>
    /\ dashboard[1].ok
    /\ substance_filter = << >>
    /\ LET df == dashboard[1].df
           options == SubstanceOptions(df, GetAllSubstancesWithTypes(db_tables))
       IN  \E picked \in SUBSET (1..Len(options)) :
              substance_filter' = << FilterBySubstance(df, options, picked) >>
    /\ UNCHANGED <<run_vars, pc, raw_data, transformed_data, load_result,
                   validation, summary, attempts, status, error, db_tables,
                   db_indexes, index_errors, standalone, dashboard>>

Step(files, maxRuns) ==
    \/ StartRun(files, maxRuns)
    \/ ExtractData
    \/ TransformDataTask
    \/ CreateDatabaseTables
    \/ ValidateDatabase
    \/ ReturnSummary

\* runs of the flow, one after the other, against the same store, and runs of
\* the Validator on its own between them
Next ==
    \/ Step(FlowFiles, MaxRuns)
    \/ ValidateStandalone

Spec == Init /\ [][Next]_vars

\* one run of the flow and the dashboard: over the files of RichRows on an
\* empty store, over the files of the many-runs specification on a store
\* that holds what another program wrote
NextOneRun ==
    \/ ~db_tables[OtherTable].exists /\ StartRun(OneRunFiles, 1)
    \/ db_tables[OtherTable].exists /\ StartRun(FlowFiles, 1)
    \/ ExtractData
    \/ TransformDataTask
    \/ CreateDatabaseTables
    \/ ValidateDatabase
    \/ ReturnSummary
    \/ DashboardLoadData
    \/ SelectSubstances

SpecOneRun == InitOneRun /\ [][NextOneRun]_vars

(***************************************************************************)
(* Properties.                                                             *)
(***************************************************************************)
Table(t) == db_tables[t]

Loaded == status.load = "ok"

\* what one run of `file' writes to relation t of an empty store
FreshTable(t, file) ==
    [exists |-> TRUE,
     rows |-> FrameOf(t, TransformData(file.ncols, ReadCsv(file)).rows)]

\* C1: every row that transform_data returns has non-null section, code,
\* substance and value, a value other than the sentinel 9999999999.0 and a
\* substance that is neither CD nor ND.
C1_CleanRowsValid ==
    status.transform = "ok" =>
        \A i \in 1..Len(transformed_data) :
            LET r == transformed_data[i]
            IN  /\ r.section # NA
                /\ r.code # NA
                /\ r.substance # NA
                /\ r.value.kind = "num"
                /\ r.value # Sentinel
                /\ r.substance \notin {"CD", "ND"}

\* a cell of the file's value column that is present and is no number
Unparseable(text) ==
    /\ NaFilterChars(text) # NAChars
    /\ AsFloat(StrReplaceComma(text)).kind = "error"

\* a row, as read, that the cleaning is meant to keep
ValidRow(r) ==
    /\ r.section # NA
    /\ r.code # NA
    /\ r.substance # NA
    /\ r.value # NAChars
    /\ ValueAsFloat(r.value).kind = "num"
    /\ ValueAsFloat(r.value) # Sentinel
    /\ r.substance \notin {"CD", "ND"}

\* C2: a row whose value cannot be parsed as a number is dropped on its own:
\* the Transformer does not fail, the run is not aborted by it, and every
\* valid row of the same file reaches the Loader.
C2_UnparseableValueHandledPerRow ==
    ( /\ attempts.transform > 0
      /\ data_file.ncols = Len(new_names)
      /\ \E i \in 1..Len(data_file.rows) : Unparseable(data_file.rows[i].value) )
    => /\ status.transform = "ok"
       /\ \A i \in 1..Len(data_file.rows) :
            ValidRow(ReadCsv(data_file)[i]) =>
              \E j \in 1..Len(transformed_data) :
                 transformed_data[j] = ConvertTypes(ReadCsv(data_file))[i]
       /\ \A j \in 1..Len(transformed_data) :
            transformed_data[j].value.kind # "error"

\* C3: after a successful load, whatever runs came before it, each of the
\* four relations holds exactly the rows that one run of the last file on an
\* empty store writes (the same rows, hence the same row counts).
C3_ReplaceNotAccumulate ==
    Loaded => \A t \in TableNames : Table(t) = FreshTable(t, data_file)

\* C3 witness: a second run has loaded over relations that held other rows.
C3_Witness ==
    /\ runs = 2
    /\ pc = "completed"
    /\ \A t \in TableNames : db_before[t].exists /\ db_before[t].rows # << >>
    /\ \A t \in TableNames : Table(t).rows # << >>
    /\ \A t \in TableNames : db_before[t] # Table(t)

\* rows i # j of relation t that agree on all of cols
Duplicates(t, cols) ==
    { p \in (1..Len(Table(t).rows)) \X (1..Len(Table(t).rows)) :
        /\ p[1] # p[2]
        /\ \A c \in cols : Table(t).rows[p[1]][c] = Table(t).rows[p[2]][c] }

\* C4: after a successful load indicator_codes has no two rows with the same
\* (code, indicator), substance_types has exactly one row for each distinct
\* substance of the cleaned data (and no other), and location_codes has no
\* two rows equal on (oktmo_code, municipal_formation, municipal_district,
\* region).
C4_DimensionsDeduplicated ==
    Loaded =>
        /\ Duplicates("indicator_codes", indicator_cols) = {}
        /\ Duplicates("location_codes", location_cols) = {}
        /\ \A i \in 1..Len(transformed_data) :
             Cardinality({ j \in 1..Len(Table("substance_types").rows) :
                 Table("substance_types").rows[j].substance
                    = transformed_data[i].substance }) = 1
        /\ \A j \in 1..Len(Table("substance_types").rows) :
             \E i \in 1..Len(transformed_data) :
                 transformed_data[i].substance
                    = Table("substance_types").rows[j].substance

\* C4 witness: two cleaned rows with the same code, substance and location
\* code and different descriptions, source types and formations are loaded.
C4_Witness ==
    /\ Loaded
    /\ Len(transformed_data) = 2
    /\ Len(Table("air_emissions").rows) = 2
    /\ Len(Table("indicator_codes").rows) = 2
    /\ Len(Table("substance_types").rows) = 1
    /\ Len(Table("location_codes").rows) = 2
    /\ transformed_data[1].source_type # transformed_data[2].source_type

AllResolved(log) ==
    \A i \in 1..Len(log) : log[i].ok /\ log[i].missing = 0

\* C5: after a successful load every Fact row's code, substance and location
\* code (a missing location code included) is the key of a row of
\* indicator_codes, substance_types and location_codes, and the Validator,
\* run on that store, logs zero missing references for its three checks.
C5_FactKeysResolve ==
    Loaded =>
        /\ \A i \in 1..Len(checks) :
             ColumnValues(Table("air_emissions"), checks[i][2])
                \subseteq ColumnValues(Table(checks[i][1]), checks[i][2])
        /\ AllResolved(CheckLog(db_tables))
        /\ validation # << >> => AllResolved(validation[1].log)

\* C5 witness: the run's Validator has checked a load of two Fact rows with
\* different keys, one of them without location code.
C5_Witness ==
    /\ Loaded
    /\ validation # << >>
    /\ Cardinality(ColumnValues(Table("air_emissions"), "code")) = 2
    /\ Cardinality(ColumnValues(Table("air_emissions"), "substance")) = 2
    /\ NA \in ColumnValues(Table("air_emissions"), "oktmo_code")
    /\ Cardinality(ColumnValues(Table("air_emissions"), "oktmo_code")) = 2

\* the distinct non-null keys of Fact that no row of the dimension holds
TrueMissing(tables, dim, col) ==
    Cardinality({ k \in ColumnValues(tables["air_emissions"], col) :
                    k # NA /\ k \notin ColumnValues(tables[dim], col) })

\* C6: on every store the Validator runs on, each referential metric it logs
\* equals the number of distinct key values of Fact that occur in no row of
\* the dimension relation, so zero is logged only if every Fact key resolves.
C6_MetricsCountMissingKeys ==
    \A i \in 1..Len(checks) :
        /\ standalone # << >> /\ standalone[1].ok /\ standalone[1].log[i].ok
             => standalone[1].log[i].missing
                  = TrueMissing(db_tables, checks[i][1], checks[i][2])
        /\ validation # << >> /\ validation[1].log[i].ok /\ pc = "summary"
             => validation[1].log[i].missing
                  = TrueMissing(db_tables, checks[i][1], checks[i][2])

Started(t) == attempts[t] > 0

\* C7: a run completes or aborts entirely.  Extractor, Transformer, Loader
\* and (when the flow is asked to validate) Validator start in that order,
\* each only after its predecessor has finished successfully; once a task
\* has failed no later task starts and no summary is returned; a summary is
\* returned only after every task of the run has finished successfully, and
\* its status is COMPLETED.
C7_StagesInOrder ==
    /\ Started("transform") => status.extract = "ok"
    /\ Started("load") => status.transform = "ok"
    /\ Started("validate") => status.load = "ok" /\ run_validation
    /\ \A t \in Tasks : status[t] # "idle" => Started(t)
    /\ (\E t \in Tasks : status[t] = "failed")
          => pc = "aborted" /\ summary = << >>
    /\ pc = "aborted" => summary = << >> /\ \E t \in Tasks : status[t] = "failed"
    /\ summary # << >>
          => /\ pc = "completed"
             /\ status.extract = "ok"
             /\ status.transform = "ok"
             /\ status.load = "ok"
             /\ run_validation => status.validate = "ok"
             /\ summary[1].status = "COMPLETED"
    /\ pc = "completed" => summary # << >>

\* C7 witness: a run with validation has returned its summary.
C7_Witness ==
    /\ summary # << >>
    /\ run_validation
    /\ status.validate = "ok"
    /\ Table("air_emissions").rows # << >>

NonzeroMissing(log) == \E i \in 1..Len(log) : log[i].ok /\ log[i].missing > 0

\* C8: a nonzero missing-reference count never changes the outcome.  The
\* Validator, in a run or on its own, changes no relation and no index; when
\* it has connected it returns its results whatever its checks count, and the
\* run that called it goes on to return a summary with status COMPLETED.
C8_MissingReferencesNotFatal ==
    [][ /\ (pc = "validate" \/ (standalone = << >> /\ standalone' # << >>))
            => (db_tables' = db_tables /\ db_indexes' = db_indexes)
        /\ (standalone = << >> /\ standalone' # << >>)
            => standalone'[1].ok
        /\ (pc = "validate" /\ validation' # << >>) => pc' = "summary"
        /\ pc = "summary"
            => /\ pc' = "completed"
               /\ summary'[1].status = "COMPLETED"
               /\ db_tables' = db_tables
      ]_vars

\* C8 witness: the Validator has returned from a store in which it counted
\* missing references.
C8_Witness ==
    /\ standalone # << >>
    /\ standalone[1].ok
    /\ NonzeroMissing(standalone[1].log)
    /\ NonzeroMissing(CheckLog(db_tables))

\* C9: when the write of the k-th relation fails (order air_emissions,
\* indicator_codes, substance_types, location_codes) the load aborts and no
\* summary is returned; the relations written before it hold their new rows
\* and the relations after it hold what they held before the run.
C9_PartialLoadKept ==
    status.load = "failed" =>
        /\ pc = "aborted"
        /\ summary = << >>
        /\ load_result = << >>
        /\ \A t \in TableNames :
             /\ TablePos(t) < FailPos(error)
                  => Table(t) = [exists |-> TRUE,
                                 rows |-> FrameOf(t, transformed_data)]
             /\ TablePos(t) > FailPos(error) => Table(t) = db_before[t]

\* C9 witness: the write of substance_types has failed in a run that found
\* four filled relations; the first two are replaced, the last is as before.
C9_Witness ==
    /\ status.load = "failed"
    /\ error = "substance_types"
    /\ \A t \in TableNames : db_before[t].exists /\ db_before[t].rows # << >>
    /\ Table("air_emissions") # db_before["air_emissions"]
    /\ Table("indicator_codes") # db_before["indicator_codes"]
    /\ Table("location_codes") = db_before["location_codes"]
    /\ Table("location_codes") # [exists |-> TRUE,
                                  rows |-> FrameOf("location_codes", transformed_data)]

\* C10: in one run the Extractor is attempted at most three times and the
\* run aborts when the third attempt fails; Transformer, Loader and
\* Validator are attempted at most once, and a failure of one of them aborts
\* the run.
C10_BoundedRetries ==
    /\ attempts.extract <= 3
    /\ status.extract = "failed" => attempts.extract = 3 /\ pc = "aborted"
    /\ (pc = "extract" /\ Started("extract")) => attempts.extract < 3
    /\ \A t \in Tasks \ {"extract"} :
         /\ attempts[t] <= 1
         /\ status[t] = "failed" => pc = "aborted"

\* C10 witness: the third attempt of the Extractor has failed.
C10_Witness ==
    /\ status.extract = "failed"
    /\ attempts.extract = 3
    /\ pc = "aborted"

\* the frame of relation t that this run's load has written
Written(t) == [exists |-> TRUE, rows |-> FrameOf(t, transformed_data)]

\* C11: a failure to create an index does not abort the load.  The load
\* never fails because of an index; when the creation of some indexes has
\* failed in a successful load, every other index of the list exists, the
\* four relations hold the rows written in this run, the Loader has returned
\* its counts, and the run is on its way to the Validator and the summary
\* (it aborts only if the Validator itself raises) and returns COMPLETED.
C11_IndexFailureNotFatal ==
    /\ status.load = "failed"
          => error \in {"connect", "commit"} \cup TableNames
    /\ (attempts.load > 0 /\ index_errors # {})
          => /\ \A x \in IndexSet \ index_errors :
                   \E y \in db_indexes : y[2] = x[2]
             /\ \A t \in TableNames : Table(t) = Written(t)
             /\ error \in {"", "commit", "OperationalError"}
    /\ (Loaded /\ index_errors # {})
          => /\ load_result # << >>
             /\ load_result[1].table_stats = StatsOf(transformed_data)
             /\ \/ pc \in {"validate", "summary", "completed"}
                \/ status.validate = "failed"
             /\ pc = "completed" => summary[1].status = "COMPLETED"

\* C11 witness: a run whose load failed to create one index has validated
\* the store and returned its summary.
C11_Witness ==
    /\ pc = "completed"
    /\ Cardinality(index_errors) = 1
    /\ Cardinality(db_indexes) = Cardinality(IndexSet) - 1
    /\ run_validation
    /\ validation # << >>
    /\ Table("air_emissions").rows # << >>

\* the key columns: (relation, column)
KeyColumns ==
    { <<"air_emissions", "code">>, <<"air_emissions", "substance">>,
      <<"air_emissions", "oktmo_code">>, <<"indicator_codes", "code">>,
      <<"substance_types", "substance">>, <<"location_codes", "oktmo_code">> }

HasIndex(t, col) == \E x \in db_indexes : x[1] = t /\ x[3] = col

\* C12 as stated: after every run that returns a summary with status
\* COMPLETED the store has an index on each key column of each relation.
C12_KeyColumnsIndexed ==
    pc = "completed" => \A k \in KeyColumns : HasIndex(k[1], k[2])

\* C12, amended: after every run that returns a summary with status
\* COMPLETED each key column has its index, unless the creation of that
\* index raised in this run's load or was skipped because the store held an
\* index of the same name on a relation that is none of the four.
C12_KeyColumnsIndexedUnlessFailed ==
    pc = "completed" =>
        \A x \in IndexSet :
            <<x[1], x[3]>> \in KeyColumns =>
                \/ x \in db_indexes
                \/ x \in index_errors
                \/ \E y \in db_indexes : y[2] = x[2] /\ y[1] \notin TableNames

\* C12 witness: a run has completed with every index created on relations
\* that hold rows.
C12_Witness ==
    /\ pc = "completed"
    /\ index_errors = {}
    /\ IndexSet \subseteq db_indexes
    /\ \A k \in KeyColumns : HasIndex(k[1], k[2])
    /\ \A t \in TableNames : Table(t).rows # << >>

\* the relations of the store
Relations(tables) == { t \in DOMAIN tables : tables[t].exists }

\* C13 as stated: after every run that returns a summary with status
\* COMPLETED the relations of the store are exactly the four, whatever the
\* store held before, and the Validator's report has exactly these entries.
C13_ExactlyFourRelations ==
    pc = "completed" =>
        /\ Relations(db_tables) = TableNames
        /\ run_validation =>
              DOMAIN summary[1].validation_results = TableNames

\* C13, amended: after every run that returns a summary with status
\* COMPLETED the store holds the four relations, as written by this run, and
\* besides them exactly the relations of other names that it held before the
\* run, unchanged; the Validator's report has one entry for each relation of
\* the store, hence exactly the four when the store held no other relation.
C13_FourRelationsAndForeignOnes ==
    pc = "completed" =>
        /\ Relations(db_tables) = TableNames \cup Relations(db_before)
        /\ \A t \in TableNames : Table(t) = Written(t)
        /\ \A t \in StoreTables \ TableNames : Table(t) = db_before[t]
        /\ run_validation =>
              /\ DOMAIN summary[1].validation_results = Relations(db_tables)
              /\ \A t \in Relations(db_tables) :
                    summary[1].validation_results[t].row_count
                       = Len(Table(t).rows)
        /\ Relations(db_before) \subseteq TableNames =>
              /\ Relations(db_tables) = TableNames
              /\ run_validation =>
                    DOMAIN summary[1].validation_results = TableNames

\* C13 witness: a run on a store that held a relation of another program has
\* completed, and its Validator has reported five relations.
C13_Witness ==
    /\ pc = "completed"
    /\ run_validation
    /\ db_before[OtherTable].exists
    /\ Table(OtherTable).rows # << >>
    /\ DOMAIN summary[1].validation_results = StoreTables
    /\ Table("air_emissions").rows # << >>

\* C14: the total that the Loader returns is the sum of its four
\* per-relation counts, and each count is the number of rows that the
\* relation holds in the store after the successful load.
C14_CountsMatchStore ==
    load_result # << >> =>
        LET r == load_result[1]
        IN  /\ DOMAIN r.table_stats = TableNames
            /\ r.total_records =
                  r.table_stats["air_emissions"]
                    + r.table_stats["indicator_codes"]
                    + r.table_stats["substance_types"]
                    + r.table_stats["location_codes"]
            /\ \A t \in TableNames :
                  /\ Table(t).exists
                  /\ r.table_stats[t] = Len(Table(t).rows)

\* C14 witness: a second run has loaded two rows of one substance over
\* filled relations; the counts are 2, 2, 1 and 2 and the total is 7.
C14_Witness ==
    /\ runs = 2
    /\ load_result # << >>
    /\ \A t \in TableNames : db_before[t].rows # << >>
    /\ load_result[1].table_stats["air_emissions"] = 2
    /\ load_result[1].table_stats["substance_types"] = 1
    /\ load_result[1].total_records = 7

\* SQL's  a = b  in a join condition: never true for a NULL
SqlEq(a, b) == a # NA /\ b # NA /\ a = b

\* air_emissions JOIN indicator_codes JOIN substance_types JOIN
\* location_codes on code, substance and oktmo_code: the joined rows, each
\* named by the positions of its four parts
JoinRows(tables) ==
    { p \in (1..Len(tables["air_emissions"].rows))
              \X (1..Len(tables["indicator_codes"].rows))
              \X (1..Len(tables["substance_types"].rows))
              \X (1..Len(tables["location_codes"].rows)) :
        LET ae == tables["air_emissions"].rows[p[1]]
        IN  /\ SqlEq(ae.code, tables["indicator_codes"].rows[p[2]].code)
            /\ SqlEq(ae.substance, tables["substance_types"].rows[p[3]].substance)
            /\ SqlEq(ae.oktmo_code, tables["location_codes"].rows[p[4]].oktmo_code) }

\* a cleaned row whose three keys each equal the key of a dimension row
KeysResolve(r, tables) ==
    \A i \in 1..Len(checks) :
        \E k \in ColumnValues(tables[checks[i][1]], checks[i][2]) :
            SqlEq(r[checks[i][2]], k)

ResolvedRows ==
    { i \in 1..Len(transformed_data) :
        KeysResolve(transformed_data[i], db_tables) }

\* C15 as stated: the join of Fact to the three dimensions has exactly as
\* many rows as there are cleaned rows whose three keys all resolve.
C15_JoinCountsResolvedRows ==
    Loaded => Cardinality(JoinRows(db_tables)) = Cardinality(ResolvedRows)

\* the descriptions that the cleaned rows give to a code
Descriptions(code) ==
    { transformed_data[j].indicator :
        j \in { k \in 1..Len(transformed_data) :
                  transformed_data[k].code = code } }

\* the name tuples that the cleaned rows give to a location code
LocationTuples(oktmo) ==
    { [ c \in location_cols |-> transformed_data[j][c] ] :
        j \in { k \in 1..Len(transformed_data) :
                  transformed_data[k].oktmo_code = oktmo } }

\* the joined rows that the i-th cleaned row yields
JoinedPerRow(i) ==
    IF transformed_data[i].oktmo_code = NA THEN 0
    ELSE Cardinality(Descriptions(transformed_data[i].code))
           * Cardinality(LocationTuples(transformed_data[i].oktmo_code))

RECURSIVE SumJoined(_)
SumJoined(n) == IF n = 0 THEN 0 ELSE JoinedPerRow(n) + SumJoined(n - 1)

\* no code with several descriptions, no location code with several tuples
OneToOneKeys ==
    \A i \in 1..Len(transformed_data) :
        /\ Cardinality(Descriptions(transformed_data[i].code)) = 1
        /\ Cardinality(LocationTuples(transformed_data[i].oktmo_code)) = 1

\* C15, amended: after a successful load the join yields, for each cleaned
\* row with a location code, as many rows as the product of the number of
\* descriptions of its code and the number of name tuples of its location
\* code, and none for a cleaned row without location code; so it has at
\* least as many rows as there are cleaned rows whose keys resolve, and
\* exactly as many when no code has several descriptions and no location
\* code several name tuples.
C15_JoinMultipliesPerKey ==
    Loaded =>
        /\ Cardinality(JoinRows(db_tables)) = SumJoined(Len(transformed_data))
        /\ ResolvedRows = { i \in 1..Len(transformed_data) :
                              transformed_data[i].oktmo_code # NA }
        /\ Cardinality(JoinRows(db_tables)) >= Cardinality(ResolvedRows)
        /\ OneToOneKeys =>
              Cardinality(JoinRows(db_tables)) = Cardinality(ResolvedRows)

\* C15 witness: two cleaned rows share code and location code and differ in
\* description and formation; the join has eight rows for two Fact rows.
C15_Witness ==
    /\ Loaded
    /\ Len(Table("air_emissions").rows) = 2
    /\ ~OneToOneKeys
    /\ Cardinality(ResolvedRows) = 2
    /\ Cardinality(JoinRows(db_tables)) = 8

\* the files with the rows of `file' in another order
Reordered(file) ==
    { [ file EXCEPT !.rows = [ i \in 1..Len(file.rows) |-> file.rows[p[i]] ] ] :
        p \in Permutations(1..Len(file.rows)) }

RowSet(rows) == { rows[i] : i \in 1..Len(rows) }

Count(rows, r) == Cardinality({ i \in 1..Len(rows) : rows[i] = r })

\* the rows of both sequences, each as often in one as in the other
SameRows(a, b) ==
    /\ RowSet(a) = RowSet(b)
    /\ \A r \in RowSet(a) : Count(a, r) = Count(b, r)

\* the load of this run has just returned
JustLoaded == Loaded /\ ~Started("validate") /\ summary = << >>

\* C16 as stated: a file with the same rows in another order gives the same
\* set of rows in each of the four relations, source_type included.
C16_OrderIndependent ==
    JustLoaded =>
        \A f \in Reordered(data_file), t \in TableNames :
            RowSet(FreshTable(t, f).rows) = RowSet(Table(t).rows)

\* the first cleaned row of a substance
FirstOf(substance) ==
    transformed_data[
        CHOOSE i \in 1..Len(transformed_data) :
            /\ transformed_data[i].substance = substance
            /\ \A j \in 1..(i - 1) :
                  transformed_data[j].substance # substance ]

\* C16, amended: a file with the same rows in another order gives the same
\* rows in air_emissions, indicator_codes and location_codes and the same
\* substances in substance_types; the source_type kept for a substance is
\* that of its first cleaned row in the order of the file.  (Compared in the
\* state that the load leaves: the relations as one run of the reordered
\* file writes them against the relations in the store.)
C16_OrderIndependentButSourceType ==
    JustLoaded =>
        /\ \A f \in Reordered(data_file) :
              LET df_final == TransformData(f.ncols, ReadCsv(f)).rows
                  st == FrameOf("substance_types", df_final)
              IN  /\ \A t \in TableNames \ {"substance_types"} :
                        SameRows(FrameOf(t, df_final), Table(t).rows)
                  /\ { st[i].substance : i \in 1..Len(st) }
                        = ColumnValues(Table("substance_types"), "substance")
                  /\ Len(st) = Len(Table("substance_types").rows)
        /\ \A i \in 1..Len(Table("substance_types").rows) :
              LET st == Table("substance_types").rows[i]
              IN  st.source_type = FirstOf(st.substance).source_type

\* C16 witness: the loaded file has two rows of one substance with different
\* source types; in the other order substance_types keeps the other type.
C16_Witness ==
    /\ JustLoaded
    /\ Len(Table("air_emissions").rows) = 2
    /\ Len(Table("substance_types").rows) = 1
    /\ \E f \in Reordered(data_file) :
          /\ FreshTable("substance_types", f) # Table("substance_types")
          /\ RowSet(FreshTable("indicator_codes", f).rows)
                = RowSet(Table("indicator_codes").rows)

\* C17: a file whose column count is not fourteen, fewer or more, is a
\* structural error: the Transformer fails, the run aborts without a
\* summary, and the Loader is never started and writes nothing.
C17_WrongColumnCountFatal ==
    (Started("transform") /\ data_file.ncols # Len(new_names))
        => /\ status.transform = "failed"
           /\ pc = "aborted"
           /\ summary = << >>
           /\ ~Started("load")
           /\ db_tables = db_before

\* C18: the Extractor fails exactly when the file cannot be read or the
\* parse yields no usable row: it never returns an empty frame, a run on a
\* file without usable rows never completes, and when the Extractor has
\* failed it is the read that raised.
C18_ExtractorFailsOnZeroRows ==
    /\ status.extract = "ok" => Len(raw_data) > 0
    /\ (Started("extract") /\ Len(ReadCsv(data_file)) = 0)
          => pc # "completed"
    /\ status.extract = "failed" => error = "OSError"

\* the rows of the loaded frame that come from the f-th Fact row
LoadedFrom(f) == { p \in DOMAIN dashboard[1].df : p[1] = f }

\* C19: in the frame that the dashboard loads every Fact row with a value
\* above zero occurs exactly once and no Fact row with another value occurs,
\* so the values of the frame are the positive values of Fact, each as often
\* as in Fact, and their sums agree.
C19_OneLoadedRowPerPositiveFactRow ==
    (dashboard # << >> /\ dashboard[1].ok) =>
        /\ \A f \in 1..Len(Table("air_emissions").rows) :
              Cardinality(LoadedFrom(f)) =
                 IF Positive(Table("air_emissions").rows[f].value) THEN 1 ELSE 0
        /\ \A p \in DOMAIN dashboard[1].df :
              Positive(dashboard[1].df[p].value)

\* C20: air_emissions is written without deduplication: after a successful
\* load it has one row for each cleaned row, in the same order and with the
\* cleaned row's section, code, substance, value, oktmo_code and year, so
\* cleaned rows that agree on all six columns are each kept.
C20_FactNotDeduplicated ==
    Loaded =>
        /\ Len(Table("air_emissions").rows) = Len(transformed_data)
        /\ \A i \in 1..Len(transformed_data) :
              Table("air_emissions").rows[i]
                 = [ c \in air_emissions_cols |-> transformed_data[i][c] ]

\* C20 witness: two cleaned rows that agree on all six columns are loaded,
\* and air_emissions holds both.
C20_Witness ==
    /\ Loaded
    /\ Len(transformed_data) = 2
    /\ Len(Table("air_emissions").rows) = 2
    /\ Table("air_emissions").rows[1] = Table("air_emissions").rows[2]

\* C21: only the Loader modifies the store.  Every step other than the
\* Loader's (the start of a run, an attempt of the Extractor, the
\* Transformer, the Validator in a run or on its own, the summary) leaves
\* every relation and every index as it is; hence until the Loader of a run
\* has started the store is as the run found it, in particular after a run
\* that aborted in the Extractor or the Transformer.
C21_OnlyLoaderWrites ==
    [][ /\ pc # "load" => (db_tables' = db_tables /\ db_indexes' = db_indexes)
        /\ ~Started("load")' => db_tables' = db_before'
        /\ (status.extract = "failed" \/ status.transform = "failed")'
              => (pc' = "aborted" /\ db_tables' = db_before')
      ]_vars

\* C21 witness: on a store with four filled relations a run has aborted in
\* the Transformer after a retry of the Extractor, the Validator has then
\* run on its own, and the store is as the run found it.
C21_Witness ==
    /\ pc = "aborted"
    /\ status.transform = "failed"
    /\ attempts.extract > 1
    /\ standalone # << >>
    /\ \A t \in TableNames : db_before[t].exists /\ db_before[t].rows # << >>
    /\ db_tables = db_before

\* the substances of the rows of the loaded frame named by `keys'
SubstancesOf(keys) == { dashboard[1].df[p].substance : p \in keys }

\* C22: the substance filter maps display names back faithfully.  Every
\* substance of the loaded frame has an option generated from it whose name
\* leads back to it, and when the user has picked some options the filtered
\* frame holds exactly the loaded rows of the substances that the picked
\* options were generated from.
C22_SubstanceFilterFaithful ==
    substance_filter # << >> =>
        LET f == substance_filter[1]
            generated == { f.options[i][1] : i \in f.picked }
        IN  /\ \A s \in SubstancesOf(DOMAIN dashboard[1].df) \ {NA} :
                  \E i \in 1..Len(f.options) :
                      /\ f.options[i][1] = s
                      /\ DisplayToCode(f.options)[f.options[i][2]] = s
            /\ f.picked # {} =>
                  f.df_filtered =
                     { p \in DOMAIN dashboard[1].df :
                         dashboard[1].df[p].substance \in generated }

=============================================================================
